---- MODULE Spec2Model ----
(***************************************************************************)
(* Model of the election research agent: the news analyzer, the social     *)
(* media analyzer, the data collector, the pipeline orchestrator and the   *)
(* report generator.  A behaviour is one call of one entry point:          *)
(*   "news"   NewsAnalyzer.analyze(news_data)                              *)
(*   "social" SocialMediaAnalyzer.analyze(social_data)                     *)
(*   "run"    ElectionResearchSystem.run_analysis(query) followed by       *)
(*            ElectionResearchSystem.generate_report(results)              *)
(* Python dicts are records (a key is present iff it is in the DOMAIN),    *)
(* lists are sequences, strings are strings, and a joined string is the    *)
(* sequence of its pieces with the separator between them.                 *)
(***************************************************************************)
EXTENDS Integers, Sequences, FiniteSets, TLC

VARIABLES
    entry,              \* the entry point this behaviour calls
    \* NewsAnalyzer.analyze
    news_data,          \* its argument: the list of articles
    na_pc,              \* "idle", "loop", "aggregate", "done", "raised"
    analyzed_articles,  \* the list built by the loop
    na_fates,           \* what happened to each article the loop has visited
    na_submitted,       \* content of the HumanMessage of the meta-analysis call
    na_result,          \* the returned aggregate
    na_raised_in,       \* where the exception that left analyze came from
    \* SocialMediaAnalyzer.analyze
    social_data,        \* its argument
    sm_pc,              \* "idle", "start", "done", "raised"
    sm_result,          \* the returned analysis
    sm_raised_in,       \* where the exception came from
    \* ElectionResearchSystem.run_analysis and generate_report
    run_pc,             \* position in run_analysis / generate_report
    election_params,    \* the parsed query parameters
    api_articles,       \* the articles the news API answered with
    api_fates,          \* per article: does newspaper download and parse it
    api_statuses,       \* the statuses the Twitter cursor yielded
    raw_data,           \* what DataCollector.collect returned
    news_analysis,      \* run_analysis' local of that name
    social_analysis,    \* run_analysis' local of that name
    predictions,        \* run_analysis' local of that name
    run_result,         \* the dict run_analysis returned
    run_failed_at,      \* the stage whose exception left run_analysis
    run_raised_in,      \* the call that raised it
    synthesis_failed,   \* the predictor's synthesis mechanism failed
    report,             \* what the report generator read from the result
    disk,               \* the files of the reports directory
    report_path,        \* what generate_report returned
    \* DataCollector.collect
    dc_params,          \* its argument: the election parameters
    dc_pc,              \* "idle", "start", "done", "raised"
    dc_now,             \* the clock reading of this call
    dc_news_request,    \* what requests.get was called with
    dc_twitter_request, \* what the Twitter cursor was built with
    dc_result           \* the returned data

news_vars == <<news_data, na_pc, analyzed_articles, na_fates, na_submitted,
               na_result, na_raised_in>>
social_vars == <<social_data, sm_pc, sm_result, sm_raised_in>>
run_vars == <<run_pc, election_params, api_articles, api_fates, api_statuses,
              raw_data, news_analysis, social_analysis, predictions, run_result,
              run_failed_at, run_raised_in, synthesis_failed, report,
              disk, report_path>>
collect_vars == <<dc_params, dc_pc, dc_now, dc_news_request, dc_twitter_request,
                  dc_result>>
vars == <<entry, news_vars, social_vars, run_vars, collect_vars>>

\* ---------------------------------------------------------------- bounds
MaxItems == 3       \* longest list of articles handed to an analyzer
MaxTweets == 2      \* longest list of tweets
MaxApiArticles == 2 \* most articles the news API answers with
MaxStatuses == 2    \* most statuses the Twitter cursor yields
MaxCandidates == 2  \* most candidate names in the query parameters

\* ---------------------------------------------------------------- values
None == <<>>        \* a variable that holds no value yet

Urls == {"u1", "u2"}
Replies == {"r1", "r2"}             \* contents the chat model can answer
Times == {1, 2}                     \* clock readings and timestamps
SeqsUpTo(S, n) == UNION {[1..k -> S] : k \in 0..n}

\* dict.get(key, default)
DictGet(d, key, default) == IF key \in DOMAIN d THEN d[key] ELSE default

\* sep.join(pieces)
RECURSIVE Join(_, _)
Join(pieces, sep) ==
    IF pieces = <<>> THEN <<>>
    ELSE IF Len(pieces) = 1 THEN <<pieces[1]>>
    ELSE <<pieces[1], sep>> \o Join(Tail(pieces), sep)

\* ------------------------------------------------- newspaper.Article stub
\* What the article behind a url parses to.
ParsedTitle == [u \in Urls |-> IF u = "u1" THEN "title1" ELSE "title2"]
ParsedText == [u \in Urls |-> IF u = "u1" THEN "text1" ELSE "text2"]

\* The articles NewsAnalyzer.analyze can be given: a dict with a url, or one
\* without (the handler reads it with article.get('url', 'unknown')).
NewsArticles == {[url |-> u, text |-> ParsedText[u]] : u \in Urls}
                    \cup {[text |-> "text1"]}

\* The step of _analyze_single_article that raises, or "ok".
ArticleFates == {"ok", "download", "parse", "nlp", "llm"}

\* ------------------------------------------------------------ NewsAnalyzer
\* _analyze_single_article with a handler that logs and re-raises, as the
\* other handlers of the class do.
analyze_single_article_reraise(article, fate, reply) ==
    IF "url" \notin DOMAIN article \/ fate # "ok"
    THEN [raised |-> TRUE, value |-> None]
    ELSE [raised |-> FALSE,
          value |-> [url |-> article.url,
                     title |-> ParsedTitle[article.url],
                     summary |-> "summary",
                     keywords |-> "keywords",
                     llm_analysis |-> reply,
                     publication_date |-> "date"]]

\* NewsAnalyzer._analyze_single_article: the try block raises at the step
\* named by fate (or at article['url'] when the key is missing); the handler
\* catches every Exception and returns the error record.
analyze_single_article(article, fate, reply) ==
    IF "url" \notin DOMAIN article
    THEN [raised |-> FALSE,
          value |-> [error |-> "KeyError", url |-> DictGet(article, "url", "unknown")]]
    ELSE IF fate # "ok"
    THEN [raised |-> FALSE,
          value |-> [error |-> fate, url |-> DictGet(article, "url", "unknown")]]
    ELSE [raised |-> FALSE,
          value |-> [url |-> article.url,
                     title |-> ParsedTitle[article.url],
                     summary |-> "summary",
                     keywords |-> "keywords",
                     llm_analysis |-> reply,
                     publication_date |-> "date"]]

\* The comprehension without its filter: an error record contributes its
\* error text.
RECURSIVE llm_analyses_unfiltered(_)
llm_analyses_unfiltered(analyses) ==
    IF analyses = <<>> THEN <<>>
    ELSE <<DictGet(Head(analyses), "llm_analysis", DictGet(Head(analyses), "error", ""))>>
            \o llm_analyses_unfiltered(Tail(analyses))

\* [a['llm_analysis'] for a in analyzed_articles if 'llm_analysis' in a]
RECURSIVE llm_analyses(_)
llm_analyses(analyses) ==
    IF analyses = <<>> THEN <<>>
    ELSE IF "llm_analysis" \in DOMAIN Head(analyses)
    THEN <<Head(analyses).llm_analysis>> \o llm_analyses(Tail(analyses))
    ELSE llm_analyses(Tail(analyses))

\* _aggregate_analysis counting only the analyses that entered the text.
aggregate_analysis_valid_count(analyses, llm_ok, reply) ==
    LET combined_analysis == Join(llm_analyses(analyses), "\n\n")
    IN  IF ~llm_ok
        THEN [raised |-> TRUE, submitted |-> combined_analysis, value |-> None]
        ELSE [raised |-> FALSE, submitted |-> combined_analysis,
              value |-> [meta_analysis |-> reply,
                         article_count |-> Len(llm_analyses(analyses)),
                         individual_analyses |-> analyses]]

\* NewsAnalyzer._aggregate_analysis: one model call on the joined analyses;
\* a failure of that call is logged and re-raised.
aggregate_analysis(analyses, llm_ok, reply) ==
    LET combined_analysis == Join(llm_analyses(analyses), "\n\n")
    IN  IF ~llm_ok
        THEN [raised |-> TRUE, submitted |-> combined_analysis, value |-> None]
        ELSE [raised |-> FALSE, submitted |-> combined_analysis,
              value |-> [meta_analysis |-> reply,
                         article_count |-> Len(analyses),
                         individual_analyses |-> analyses]]

\* NewsAnalyzer.analyze is called.
NewsAnalyze ==
    /\ entry = "news" /\ na_pc = "idle"
    /\ na_pc' = "loop"
    /\ UNCHANGED <<entry, news_data, analyzed_articles, na_fates, na_submitted,
                   na_result, na_raised_in, social_vars, run_vars, collect_vars>>

\* The loop iteration appending only the analyses that succeeded.
NewsAnalyzeArticle_skip_failed ==
    /\ na_pc = "loop" /\ Len(na_fates) < Len(news_data)
    /\ \E fate \in ArticleFates, reply \in Replies :
        LET article == news_data[Len(na_fates) + 1]
            analysis == analyze_single_article(article, fate, reply)
        IN  /\ na_fates' = Append(na_fates, fate)
            /\ IF "error" \in DOMAIN analysis.value
               THEN UNCHANGED analyzed_articles
               ELSE analyzed_articles' = Append(analyzed_articles, analysis.value)
            /\ UNCHANGED <<na_pc, na_raised_in>>
    /\ UNCHANGED <<entry, news_data, na_submitted, na_result, social_vars, run_vars, collect_vars>>

\* One iteration of `for article in news_data`.
NewsAnalyzeArticle ==
    /\ na_pc = "loop" /\ Len(na_fates) < Len(news_data)
    /\ \E fate \in ArticleFates, reply \in Replies :
        LET article == news_data[Len(na_fates) + 1]
            analysis == analyze_single_article(article, fate, reply)
        IN  /\ na_fates' = Append(na_fates, fate)
            /\ IF analysis.raised
               THEN /\ na_pc' = "raised" /\ na_raised_in' = "item"
                    /\ UNCHANGED analyzed_articles
               ELSE /\ analyzed_articles' = Append(analyzed_articles, analysis.value)
                    /\ UNCHANGED <<na_pc, na_raised_in>>
    /\ UNCHANGED <<entry, news_data, na_submitted, na_result, social_vars, run_vars, collect_vars>>

\* `return self._aggregate_analysis(analyzed_articles)` after the loop.
NewsAggregate ==
    /\ na_pc = "loop" /\ Len(na_fates) = Len(news_data)
    /\ \E llm_ok \in BOOLEAN, reply \in Replies :
        LET agg == aggregate_analysis(analyzed_articles, llm_ok, reply)
        IN  /\ na_submitted' = agg.submitted
            /\ IF agg.raised
               THEN /\ na_pc' = "raised" /\ na_raised_in' = "aggregate"
                    /\ UNCHANGED na_result
               ELSE /\ na_pc' = "done" /\ na_result' = agg.value
                    /\ UNCHANGED na_raised_in
    /\ UNCHANGED <<entry, news_data, analyzed_articles, na_fates, social_vars, run_vars, collect_vars>>

\* ----------------------------------------------------- SocialMediaAnalyzer
Min(S) == CHOOSE x \in S : \A y \in S : x <= y
Max(S) == CHOOSE x \in S : \A y \in S : x >= y

\* [tweet[key] for tweet in tweets]
Column(rows, key) == [i \in 1..Len(rows) |-> rows[i][key]]
Range(f) == {f[i] : i \in DOMAIN f}

\* The tweets a caller can hand over, and the social_data dicts holding them
\* (analyze reads social_data.get('twitter', [])).
Tweets == {[text |-> w, created_at |-> t] : w \in {"w1", "w2"}, t \in Times}
SocialData == {[twitter |-> ts] : ts \in SeqsUpTo(Tweets, MaxTweets)}
                  \cup {[parameters |-> "params"]}

\* SocialMediaAnalyzer._analyze_twitter: the model call, then the dict with
\* min()/max() over the tweets' timestamps; min() of an empty sequence raises
\* ValueError, and every exception is logged and re-raised.
analyze_twitter(tweets, llm_ok, reply) ==
    LET tweet_texts == Join(Column(tweets, "text"), "\n\n")
    IN  IF ~llm_ok
        THEN [raised |-> TRUE, where |-> "llm", value |-> None]
        ELSE IF tweets = <<>>
        THEN [raised |-> TRUE, where |-> "min", value |-> None]
        ELSE [raised |-> FALSE, where |-> "nowhere",
              value |-> [sentiment_analysis |-> reply,
                         tweet_count |-> Len(tweets),
                         time_period |->
                            [start |-> Min(Range(Column(tweets, "created_at"))),
                             end |-> Max(Range(Column(tweets, "created_at")))]]]

\* SocialMediaAnalyzer._calculate_overall_sentiment: the placeholder 0.0
calculate_overall_sentiment(twitter_analysis) == 0

\* SocialMediaAnalyzer.analyze is called.
SocialAnalyze ==
    /\ entry = "social" /\ sm_pc = "idle"
    /\ sm_pc' = "start"
    /\ UNCHANGED <<entry, social_data, sm_result, sm_raised_in, news_vars, run_vars, collect_vars>>

\* The body of SocialMediaAnalyzer.analyze.
SocialAnalyzeTwitter ==
    /\ sm_pc = "start"
    /\ \E llm_ok \in BOOLEAN, reply \in Replies, now \in Times :
        LET twitter_analysis ==
                analyze_twitter(DictGet(social_data, "twitter", <<>>), llm_ok, reply)
        IN  IF twitter_analysis.raised
            THEN /\ sm_pc' = "raised" /\ sm_raised_in' = twitter_analysis.where
                 /\ UNCHANGED sm_result
            ELSE /\ sm_pc' = "done"
                 /\ sm_result' =
                        [timestamp |-> now,
                         twitter_analysis |-> twitter_analysis.value,
                         overall_sentiment |->
                            calculate_overall_sentiment(twitter_analysis.value)]
                 /\ UNCHANGED sm_raised_in
    /\ UNCHANGED <<entry, social_data, news_vars, run_vars, collect_vars>>


\* ------------------------------------------------------------ DataCollector
\* The article records the news API can answer with; the last one lacks the
\* 'publishedAt' key.
ApiArticles ==
    {[url |-> u, title |-> ParsedTitle[u], publishedAt |-> "date",
      source |-> [name |-> "src"]] : u \in Urls}
        \cup {[url |-> "u2", title |-> "title2", source |-> [name |-> "src"]]}

\* What newspaper does with an article's url: download and parse it, or
\* raise ArticleException.
DownloadFates == {"ok", "ArticleException"}

\* The statuses the Twitter cursor can yield.
Statuses ==
    {[id |-> 1, full_text |-> "w1", created_at |-> 1, screen_name |-> "user",
      retweet_count |-> 0, favorite_count |-> 0],
     [id |-> 2, full_text |-> "w2", created_at |-> 2, screen_name |-> "user",
      retweet_count |-> 0, favorite_count |-> 0]}

\* The loop `for article in articles` of DataCollector._collect_news: an
\* ArticleException skips the article; any other exception (a KeyError for a
\* key the record lacks) leaves the loop and the function.
RECURSIVE process_articles(_, _)
process_articles(articles, fates) ==
    IF articles = <<>> THEN [raised |-> FALSE, value |-> <<>>]
    ELSE LET article == Head(articles)
             rest == process_articles(Tail(articles), Tail(fates))
         IN  IF "url" \notin DOMAIN article
             THEN [raised |-> TRUE, value |-> None]
             ELSE IF Head(fates) = "ArticleException"
             THEN rest
             ELSE IF {"title", "publishedAt", "source"} \ DOMAIN article # {}
             THEN [raised |-> TRUE, value |-> None]
             ELSE IF rest.raised
             THEN rest
             ELSE [raised |-> FALSE,
                   value |-> <<[url |-> article.url,
                                title |-> article.title,
                                text |-> ParsedText[article.url],
                                published_at |-> article.publishedAt,
                                source |-> article.source.name]>> \o rest.value]

\* DataCollector._collect_news: the request (raise_for_status raises on an
\* HTTP error), then the loop; every exception is logged and re-raised.
collect_news(params, http_ok, articles, fates) ==
    IF ~http_ok
    THEN [raised |-> TRUE, where |-> "request", value |-> None]
    ELSE LET processed == process_articles(articles, fates)
         IN  IF processed.raised
             THEN [raised |-> TRUE, where |-> "article", value |-> None]
             ELSE [raised |-> FALSE, where |-> "nowhere", value |-> processed.value]

\* .items(1000): the most statuses the cursor hands over
ItemsLimit == 1000
\* timedelta(days=7)
RecencyDays == 7

\* f'"{c}"'
Quoted == [c \in {"A", "B"} |-> IF c = "A" THEN "\"A\"" ELSE "\"B\""]

\* `if params.get(key):` for a string parameter
HasText(params, key) == key \in DOMAIN params /\ params[key] # ""

\* The search terms both collectors build first: election type, country and
\* region when present and not empty, then every candidate in quotes.
search_terms(params) ==
    LET candidates == DictGet(params, "candidates", <<>>)
    IN  (IF HasText(params, "election_type") THEN <<params.election_type>> ELSE <<>>)
        \o (IF HasText(params, "country") THEN <<params.country>> ELSE <<>>)
        \o (IF HasText(params, "region") THEN <<params.region>> ELSE <<>>)
        \o [i \in 1..Len(candidates) |-> Quoted[candidates[i]]]

\* DataCollector._collect_news: query = ' AND '.join(search_terms)
news_query(params) ==
    Join(search_terms(params) \o DictGet(params, "keywords", <<>>), " AND ")

\* DataCollector._collect_news: api_params
news_api_params(params, now) ==
    [q |-> news_query(params),
     from |-> now - RecencyDays,
     sortBy |-> "relevancy",
     language |-> "en",
     apiKey |-> "key"]

\* DataCollector._collect_news: requests.get(base_url, params=params); the
\* query string is made from the election parameters, api_params is not used.
news_request(params, now) ==
    [url |-> "https://newsapi.org/v2/everything", params |-> params]

\* DataCollector._collect_twitter: query
twitter_query(params) ==
    Join(search_terms(params) \o DictGet(params, "hashtags", <<>>), " ")
        \o <<" -filter:retweets">>

\* DataCollector._collect_twitter: tweepy.Cursor(search_tweets, ...).items(1000)
twitter_request(params) ==
    [q |-> twitter_query(params), tweet_mode |-> "extended", lang |-> "en",
     items |-> ItemsLimit]

\* The first n elements of a sequence.
FirstN(seq, n) == SubSeq(seq, 1, IF Len(seq) < n THEN Len(seq) ELSE n)

\* DataCollector._collect_twitter: one dict per status the cursor yields, at
\* most ItemsLimit of them; an exception of the cursor is logged and re-raised.
collect_twitter(params, cursor_ok, statuses) ==
    IF ~cursor_ok
    THEN [raised |-> TRUE, where |-> "cursor", value |-> None]
    ELSE LET yielded == FirstN(statuses, ItemsLimit)
         IN  [raised |-> FALSE, where |-> "nowhere",
              value |-> [i \in 1..Len(yielded) |->
                            [id |-> yielded[i].id,
                             text |-> yielded[i].full_text,
                             created_at |-> yielded[i].created_at,
                             user |-> yielded[i].screen_name,
                             retweet_count |-> yielded[i].retweet_count,
                             favorite_count |-> yielded[i].favorite_count]]]

\* DataCollector._collect_social_media
collect_social_media(params, cursor_ok, statuses) ==
    LET twitter_data == collect_twitter(params, cursor_ok, statuses)
    IN  IF twitter_data.raised
        THEN twitter_data
        ELSE [raised |-> FALSE, where |-> "nowhere",
              value |-> [twitter |-> twitter_data.value, parameters |-> params]]

\* DataCollector.collect: news first, then social media; no check on what
\* came back.
collect(params, http_ok, articles, fates, cursor_ok, statuses, now) ==
    LET news == collect_news(params, http_ok, articles, fates)
        social == collect_social_media(params, cursor_ok, statuses)
    IN  IF news.raised THEN news
        ELSE IF social.raised THEN social
        ELSE [raised |-> FALSE, where |-> "nowhere",
              value |-> [timestamp |-> now,
                         parameters |-> params,
                         news |-> news.value,
                         social |-> social.value]]

\* The election parameters collect can be given: every key may be missing,
\* a string may be empty, a list may be empty.
AbsentText == "absent"
AbsentList == <<"absent">>
Present(r) ==
    [k \in {k \in DOMAIN r :
                IF k \in {"candidates", "keywords", "hashtags"}
                THEN r[k] # AbsentList ELSE r[k] # AbsentText} |-> r[k]]
CollectParameters ==
    {Present(r) : r \in [election_type : {AbsentText, "", "presidential"},
                         country : {AbsentText, "USA"},
                         region : {AbsentText, "Ohio"},
                         candidates : {AbsentList, <<>>, <<"A", "B">>},
                         keywords : {AbsentList, <<"poll">>},
                         hashtags : {AbsentList, <<"#vote">>}]}

\* DataCollector.collect(params) is called.
DataCollect ==
    /\ entry = "collect" /\ dc_pc = "idle"
    /\ dc_pc' = "start"
    /\ UNCHANGED <<entry, dc_params, dc_now, dc_news_request, dc_twitter_request,
                   dc_result, news_vars, social_vars, run_vars>>

\* The body of DataCollector.collect: the news request and its articles,
\* then, unless that raised, the Twitter cursor and its statuses.
DataCollectSources ==
    /\ dc_pc = "start"
    /\ \E http_ok \in BOOLEAN, cursor_ok \in BOOLEAN, now \in Times,
          articles \in SeqsUpTo(ApiArticles, MaxApiArticles),
          statuses \in SeqsUpTo(Statuses, MaxStatuses) :
       \E fates \in [1..Len(articles) -> DownloadFates] :
        LET collected == collect(dc_params, http_ok, articles, fates,
                                 cursor_ok, statuses, now)
            news == collect_news(dc_params, http_ok, articles, fates)
        IN  /\ dc_now' = now
            /\ dc_news_request' = news_request(dc_params, now)
            /\ dc_twitter_request' =
                    IF news.raised THEN None ELSE twitter_request(dc_params)
            /\ IF collected.raised
               THEN dc_pc' = "raised" /\ UNCHANGED dc_result
               ELSE dc_pc' = "done" /\ dc_result' = collected.value
    /\ UNCHANGED <<entry, dc_params, news_vars, social_vars, run_vars>>

\* ---------------------------------------------------------- LocalLLMHandler
Names == {"A", "B"}                 \* candidate names
Queries == {"q1", "q2"}             \* natural-language queries

\* The query parameters a parsed query can have.
QueryParameters ==
    {[election_type |-> "presidential", country |-> "USA", candidates |-> cs] :
        cs \in SeqsUpTo(Names, MaxCandidates)}

Confidences == {0, 70}              \* per cent
Probabilities == {50}               \* per cent

\* The prediction results the predictor can produce: a confidence and a
\* mapping from names to probabilities, both within [0, 1].
PredictionResults ==
    {[confidence |-> c, predictions |-> p] :
        c \in Confidences,
        p \in UNION {[K -> Probabilities] : K \in SUBSET Names}}

Raised(where) == [raised |-> TRUE, where |-> where, value |-> None]
Returned(value) == [raised |-> FALSE, where |-> "nowhere", value |-> value]

\* LocalLLMHandler.parse_election_query(query): the parameters, or a failure
\* when the query cannot be mapped to them.
parse_election_query(query) ==
    {Raised("parse_election_query")} \cup {Returned(p) : p \in QueryParameters}

\* LocalLLMHandler.analyze_content(text, content_type): the analysis text,
\* or a failure of the text-understanding service.
analyze_content(text, content_type) ==
    {Raised("analyze_content")} \cup {Returned(r) : r \in Replies}

\* The degenerate result: no prediction, zero confidence.
DegenerateResult == [confidence |-> 0, predictions |-> <<>>]

\* A predictor that lets a failure of its synthesis mechanism out.
generate_prediction_propagating(analyses) ==
    {[raised |-> TRUE, synthesis_failed |-> TRUE, value |-> None]}
        \cup {[raised |-> FALSE, synthesis_failed |-> FALSE, value |-> p] :
                    p \in PredictionResults}

\* LocalLLMHandler.generate_prediction(analyses): a prediction result made
\* from the analysis texts it is given; when the synthesis mechanism fails it
\* answers the degenerate result and does not raise.
generate_prediction(analyses) ==
    {[raised |-> FALSE, synthesis_failed |-> TRUE, value |-> DegenerateResult]}
        \cup {[raised |-> FALSE, synthesis_failed |-> FALSE, value |-> p] :
                    p \in PredictionResults}

\* --------------------------------------------------- ElectionResearchSystem
\* run_analysis(query) is called.
RunAnalysis ==
    /\ entry = "run" /\ run_pc = "idle"
    /\ run_pc' = "called"
    /\ UNCHANGED <<entry, election_params, api_articles, api_fates, api_statuses,
                   raw_data, news_analysis, social_analysis, predictions,
                   run_result, run_failed_at, run_raised_in, synthesis_failed,
                   report, disk, report_path, news_vars, social_vars, collect_vars>>

\* election_params = self.parse_election_query(query); its handler re-raises,
\* and so does run_analysis'.
RunParse ==
    /\ run_pc = "called"
    /\ \E query \in Queries : \E parsed \in parse_election_query(query) :
        IF parsed.raised
        THEN /\ run_pc' = "raised" /\ run_failed_at' = "Parsed"
             /\ run_raised_in' = parsed.where
             /\ UNCHANGED election_params
        ELSE /\ run_pc' = "parsed" /\ election_params' = parsed.value
             /\ UNCHANGED <<run_failed_at, run_raised_in>>
    /\ UNCHANGED <<entry, api_articles, api_fates, api_statuses, raw_data,
                   news_analysis, social_analysis, predictions, run_result,
                   synthesis_failed, report, disk, report_path, news_vars, social_vars, collect_vars>>

\* raw_data = self.data_collector.collect(election_params)
RunCollect ==
    /\ run_pc = "parsed"
    /\ \E http_ok \in BOOLEAN, cursor_ok \in BOOLEAN, now \in Times,
          articles \in SeqsUpTo(ApiArticles, MaxApiArticles),
          statuses \in SeqsUpTo(Statuses, MaxStatuses) :
       \E fates \in [1..Len(articles) -> DownloadFates] :
        LET collected == collect(election_params, http_ok, articles, fates,
                                 cursor_ok, statuses, now)
        IN  /\ api_articles' = articles /\ api_fates' = fates
            /\ api_statuses' = statuses
            /\ IF collected.raised
               THEN /\ run_pc' = "raised" /\ run_failed_at' = "Collected"
                    /\ run_raised_in' = collected.where
                    /\ UNCHANGED raw_data
               ELSE /\ run_pc' = "collected" /\ raw_data' = collected.value
                    /\ UNCHANGED <<run_failed_at, run_raised_in>>
    /\ UNCHANGED <<entry, election_params, news_analysis, social_analysis,
                   predictions, run_result, synthesis_failed, report, disk, report_path,
                   news_vars, social_vars, collect_vars>>

\* The news analysis with a handler that notes the failure and goes on to
\* the next stage.
RunAnalyzeNews_continue_on_failure ==
    /\ run_pc = "collected"
    /\ LET news_data_ == raw_data.news
           text == Join(Column(news_data_, "text"), "\n")
       IN  \E analysis \in analyze_content(text, "news article") :
            IF analysis.raised
            THEN /\ run_pc' = "news_analyzed" /\ run_failed_at' = "Analyzed"
                 /\ run_raised_in' = analysis.where
                 /\ news_analysis' = [articles |-> news_data_,
                                      analysis |-> "unavailable"]
            ELSE /\ run_pc' = "news_analyzed"
                 /\ news_analysis' = [articles |-> news_data_,
                                      analysis |-> analysis.value]
                 /\ UNCHANGED <<run_failed_at, run_raised_in>>
    /\ UNCHANGED <<entry, election_params, api_articles, api_fates, api_statuses,
                   raw_data, social_analysis, predictions, run_result,
                   synthesis_failed, report, disk, report_path, news_vars, social_vars, collect_vars>>

\* news_analysis = {'articles': ..., 'analysis': analyze_content(...)}
RunAnalyzeNews ==
    /\ run_pc = "collected"
    /\ LET news_data_ == raw_data.news
           text == Join(Column(news_data_, "text"), "\n")
       IN  \E analysis \in analyze_content(text, "news article") :
            IF analysis.raised
            THEN /\ run_pc' = "raised" /\ run_failed_at' = "Analyzed"
                 /\ run_raised_in' = analysis.where
                 /\ UNCHANGED news_analysis
            ELSE /\ run_pc' = "news_analyzed"
                 /\ news_analysis' = [articles |-> news_data_,
                                      analysis |-> analysis.value]
                 /\ UNCHANGED <<run_failed_at, run_raised_in>>
    /\ UNCHANGED <<entry, election_params, api_articles, api_fates, api_statuses,
                   raw_data, social_analysis, predictions, run_result,
                   synthesis_failed, report, disk, report_path, news_vars, social_vars, collect_vars>>

\* social_analysis = {'tweets': ..., 'analysis': analyze_content(...)}
RunAnalyzeSocial ==
    /\ run_pc = "news_analyzed"
    /\ LET social_data_ == raw_data.social.twitter
           text == Join(Column(social_data_, "text"), "\n")
       IN  \E analysis \in analyze_content(text, "social media") :
            IF analysis.raised
            THEN /\ run_pc' = "raised" /\ run_failed_at' = "Analyzed"
                 /\ run_raised_in' = analysis.where
                 /\ UNCHANGED social_analysis
            ELSE /\ run_pc' = "analyzed"
                 /\ social_analysis' = [tweets |-> social_data_,
                                        analysis |-> analysis.value]
                 /\ UNCHANGED <<run_failed_at, run_raised_in>>
    /\ UNCHANGED <<entry, election_params, api_articles, api_fates, api_statuses,
                   raw_data, news_analysis, predictions, run_result,
                   synthesis_failed, report, disk, report_path, news_vars, social_vars, collect_vars>>

\* predictions = self.llm_handler.generate_prediction([...])
RunPredict ==
    /\ run_pc = "analyzed"
    /\ \E predicted \in generate_prediction(<<news_analysis.analysis,
                                              social_analysis.analysis>>) :
        /\ synthesis_failed' = predicted.synthesis_failed
        /\ IF predicted.raised
           THEN /\ run_pc' = "raised" /\ run_failed_at' = "Predicted"
                /\ run_raised_in' = "generate_prediction"
                /\ UNCHANGED predictions
           ELSE /\ run_pc' = "predicted" /\ predictions' = predicted.value
                /\ UNCHANGED <<run_failed_at, run_raised_in>>
    /\ UNCHANGED <<entry, election_params, api_articles, api_fates, api_statuses,
                   raw_data, news_analysis, social_analysis, run_result, report, disk, report_path,
                   news_vars, social_vars, collect_vars>>

\* The return statement of run_analysis.
RunReturn ==
    /\ run_pc = "predicted"
    /\ \E now \in Times :
        /\ now >= raw_data.timestamp
        /\ run_result' = [timestamp |-> now,
                          query_parameters |-> election_params,
                          news_analysis |-> news_analysis,
                          social_analysis |-> social_analysis,
                          predictions |-> predictions]
    /\ run_pc' = "returned"
    /\ UNCHANGED <<entry, election_params, api_articles, api_fates, api_statuses,
                   raw_data, news_analysis, social_analysis, predictions,
                   run_failed_at, run_raised_in, synthesis_failed, report, disk, report_path,
                   news_vars, social_vars, collect_vars>>

\* ----------------------------------------------------------- ReportGenerator
\* ReportGenerator._generate_executive_summary: what it reads
generate_executive_summary(predictions_) ==
    [confidence |-> DictGet(predictions_, "confidence", 0),
     prediction_results |-> DictGet(predictions_, "predictions", <<>>)]

\* ReportGenerator._format_news_analysis: what it reads
format_news_analysis(news_analysis_) ==
    [article_count |-> DictGet(news_analysis_, "article_count", 0),
     meta_analysis |-> DictGet(news_analysis_, "meta_analysis", "No analysis available")]

\* ReportGenerator._format_social_analysis: what it reads
format_social_analysis(social_analysis_) ==
    LET twitter == DictGet(social_analysis_, "twitter_analysis", <<>>)
    IN  [tweet_count |-> DictGet(twitter, "tweet_count", 0),
         overall_sentiment |-> DictGet(social_analysis_, "overall_sentiment", 0),
         sentiment_analysis |-> DictGet(twitter, "sentiment_analysis",
                                        "No analysis available")]

\* ReportGenerator._create_report_content
create_report_content(analysis_results) ==
    [summary |-> generate_executive_summary(DictGet(analysis_results, "predictions", <<>>)),
     news |-> format_news_analysis(DictGet(analysis_results, "news_analysis", <<>>)),
     social |-> format_social_analysis(DictGet(analysis_results, "social_analysis", <<>>))]

\* report_dir / f"election_analysis_{timestamp}.md"
ReportPath(timestamp) == <<"reports/election_analysis_", timestamp, ".md">>

\* report_dir / f"raw_data_{timestamp}.json"
RawDataPath(timestamp) == <<"reports/raw_data_", timestamp, ".json">>

\* json.dumps(analysis_results, indent=2)
json_dumps(analysis_results) == [json |-> analysis_results]

\* Path.write_text: the file at path holds content afterwards; when the
\* write fails (written = FALSE: an OSError of open or write) the file is
\* taken to be left as it was.
write_text(files, path, content, written) ==
    IF written
    THEN {f \in files : f.path # path} \cup {[path |-> path, content |-> content]}
    ELSE files

\* ReportGenerator.generate: the report is written, then the raw data; an
\* exception of either write is logged and re-raised.
generate(analysis_results, now, files, report_written, raw_written) ==
    LET timestamp == now
        report_content == create_report_content(analysis_results)
        after_report == write_text(files, ReportPath(timestamp), report_content,
                                   report_written)
        after_raw == write_text(after_report, RawDataPath(timestamp),
                                json_dumps(analysis_results), raw_written)
    IN  IF ~report_written
        THEN [raised |-> TRUE, value |-> None, disk |-> after_report]
        ELSE IF ~raw_written
        THEN [raised |-> TRUE, value |-> None, disk |-> after_raw]
        ELSE [raised |-> FALSE, value |-> ReportPath(timestamp), disk |-> after_raw]

\* generate_report(results) on the result run_analysis returned.
GenerateReport ==
    /\ run_pc = "returned"
    /\ \E now \in Times, report_written \in BOOLEAN, raw_written \in BOOLEAN :
        LET generated == generate(run_result, now, disk, report_written, raw_written)
        IN  /\ report' = create_report_content(run_result)
            /\ disk' = generated.disk
            /\ report_path' = generated.value
            /\ run_pc' = IF generated.raised THEN "report_raised" ELSE "reported"
    /\ UNCHANGED <<entry, election_params, api_articles, api_fates, api_statuses,
                   raw_data, news_analysis, social_analysis, predictions,
                   run_result, run_failed_at, run_raised_in, synthesis_failed,
                   news_vars, social_vars, collect_vars>>

\* ----------------------------------------------------------------- claims
\* The article's try block raised: a step failed or the url key is missing.
ItemFails(article, fate) == "url" \notin DOMAIN article \/ fate # "ok"

\* _aggregate_analysis has been entered.
AggregateCalled ==
    na_pc = "done" \/ (na_pc = "raised" /\ na_raised_in = "aggregate")

\* C1: _analyze_single_article never raises to analyze; for every article
\* whose download, parse, nlp or model call failed (or whose url is missing)
\* it returned a record with exactly the keys error and url, the url being
\* the article's url ('unknown' when the article has none).
C1_ErrorRecordNeverRaises ==
    /\ na_raised_in # "item"
    /\ Len(analyzed_articles) = Len(na_fates)
    /\ \A i \in 1..Len(analyzed_articles) :
        ItemFails(news_data[i], na_fates[i]) =>
            /\ DOMAIN analyzed_articles[i] = {"error", "url"}
            /\ analyzed_articles[i].url = DictGet(news_data[i], "url", "unknown")

\* C1 witness: the model call failed for an article with a url and the error
\* record is in the list.
C1_Witness ==
    /\ Len(analyzed_articles) >= 1
    /\ "url" \in DOMAIN news_data[1] /\ na_fates[1] = "llm"
    /\ "error" \in DOMAIN analyzed_articles[1]

\* C2: whatever subset of the articles fails, analyze visits every article;
\* when it returns, the aggregate holds one record per article in input
\* order, counts all of them, and exactly the failing articles' records have
\* an error key; analyze raises only from the meta-analysis call, after every
\* article has been analyzed.
C2_FailureIsolation ==
    /\ na_pc = "done" =>
        /\ na_result.article_count = Len(news_data)
        /\ Len(na_result.individual_analyses) = Len(news_data)
        /\ \A i \in 1..Len(news_data) :
            /\ na_result.individual_analyses[i].url
                    = DictGet(news_data[i], "url", "unknown")
            /\ ("error" \in DOMAIN na_result.individual_analyses[i])
                    <=> ItemFails(news_data[i], na_fates[i])
    /\ na_pc = "raised" =>
        /\ na_raised_in = "aggregate"
        /\ Len(analyzed_articles) = Len(news_data)

\* C2 witness: three articles, the second fails, the others do not, and the
\* aggregate is returned.
C2_Witness ==
    /\ na_pc = "done" /\ Len(news_data) = 3
    /\ ~ItemFails(news_data[1], na_fates[1])
    /\ ItemFails(news_data[2], na_fates[2])
    /\ ~ItemFails(news_data[3], na_fates[3])

\* C4: an empty list of tweets yields an aggregate with tweet_count 0, and
\* no min()/max() over the empty timestamps raises.
C4_EmptyAggregateDoesNotRaise ==
    (sm_pc \in {"done", "raised"} /\ DictGet(social_data, "twitter", <<>>) = <<>>)
        => /\ sm_raised_in # "min"
           /\ sm_pc = "done" => sm_result.twitter_analysis.tweet_count = 0

\* C5: for a non-empty list of item analyses the aggregate's article_count is
\* the length of the list, error records included, and individual_analyses
\* is the list itself.
C5_CountEqualsInputLength ==
    (na_pc = "done" /\ analyzed_articles # <<>>) =>
        /\ na_result.article_count = Len(analyzed_articles)
        /\ na_result.individual_analyses = analyzed_articles

\* C5 witness: an aggregate over a list holding an error record and a valid
\* analysis.
C5_Witness ==
    /\ na_pc = "done"
    /\ \E i, j \in 1..Len(analyzed_articles) :
        /\ "error" \in DOMAIN analyzed_articles[i]
        /\ "llm_analysis" \in DOMAIN analyzed_articles[j]

\* The records of the list that have no error key.
WithoutError(analyses) == SelectSeq(analyses, LAMBDA a : "error" \notin DOMAIN a)

\* C6: the text submitted for the meta-analysis is the llm_analysis texts of
\* the records without an error key, in input order, joined; neither the
\* error text nor the url of a record with an error key is part of it.
C6_MetaTextExcludesErrors ==
    AggregateCalled =>
        /\ na_submitted
            = Join(Column(WithoutError(analyzed_articles), "llm_analysis"), "\n\n")
        /\ \A i \in 1..Len(analyzed_articles) :
            "error" \in DOMAIN analyzed_articles[i] =>
                /\ analyzed_articles[i].error \notin Range(na_submitted)
                /\ analyzed_articles[i].url \notin Range(na_submitted)

\* C6 witness: the aggregator ran over two valid analyses with an error
\* record between them.
C6_Witness ==
    /\ AggregateCalled /\ Len(analyzed_articles) = 3
    /\ "error" \in DOMAIN analyzed_articles[2]
    /\ Len(na_submitted) = 3

\* run_analysis has got past data collection.
PastCollected ==
    run_pc \in {"collected", "news_analyzed", "analyzed", "predicted",
                "returned", "reported", "report_raised"}

\* run_analysis has got past the analysis of the collected content.
PastAnalyzed == run_pc \in {"news_analyzed", "analyzed", "predicted",
                            "returned", "reported", "report_raised"}

\* The urls of the articles newspaper downloaded and parsed, in order.
RECURSIVE DownloadedUrls(_, _)
DownloadedUrls(articles, fates) ==
    IF articles = <<>> THEN <<>>
    ELSE IF Head(fates) = "ok"
    THEN <<Head(articles).url>> \o DownloadedUrls(Tail(articles), Tail(fates))
    ELSE DownloadedUrls(Tail(articles), Tail(fates))

\* C3: once the item lists have been collected, no failure of the analysis
\* of the items ends the run: run_analysis is never left by an exception of
\* the Analyzed stage.
C3_AnalysisFailureAbsorbed == run_failed_at # "Analyzed"

\* C7: no failure while processing one returned article leaves _collect_news;
\* the failing article alone is skipped and the others are returned in order.
C7_ItemFailureSkipped ==
    /\ run_raised_in # "article"
    /\ PastCollected =>
        Column(raw_data.news, "url") = DownloadedUrls(api_articles, api_fates)

\* C8: a run that could not parse its query, or collected no item at all from
\* any source, ends with an error: run_analysis never analyzes, predicts and
\* returns a result over zero items.
C8_NoItemsEndsRun ==
    /\ run_failed_at = "Parsed" => (run_pc = "raised" /\ election_params = None)
    /\ PastAnalyzed =>
        Len(raw_data.news) + Len(raw_data.social.twitter) > 0

\* C9: the item counts the report generator reads from the run result are
\* the numbers of news items and of social items the collector returned.
C9_ReportItemCounts ==
    run_pc = "reported" =>
        /\ report.news.article_count = Len(raw_data.news)
        /\ report.social.tweet_count = Len(raw_data.social.twitter)

\* C10: the prediction of a run has a confidence within [0, 1] and exactly
\* one entry per distinct candidate name of the query parameters, each within
\* [0, 1]; with no candidates the mapping is empty and the confidence 0.
C10_PredictionPerCandidate ==
    run_pc \in {"predicted", "returned", "reported", "report_raised"} =>
        /\ predictions.confidence \in 0..100
        /\ DOMAIN predictions.predictions = Range(election_params.candidates)
        /\ \A c \in DOMAIN predictions.predictions :
            predictions.predictions[c] \in 0..100
        /\ election_params.candidates = <<>> => predictions.confidence = 0

RunOrder == <<"idle", "called", "parsed", "collected", "news_analyzed",
              "analyzed", "predicted", "returned", "reported">>

RunPosition(pc) ==
    IF pc = "report_raised" THEN Len(RunOrder)
    ELSE CHOOSE i \in 1..Len(RunOrder) : RunOrder[i] = pc

\* The locals of run_analysis in the order the stages assign them.
RunLocals == <<election_params, raw_data, news_analysis, social_analysis,
               predictions, run_result>>

\* The position at which each of them is assigned.
AssignedFrom == <<3, 4, 5, 6, 7, 8>>

C12_StagesInOrder ==
    /\ run_failed_at # "nothing" <=> run_pc = "raised"
    /\ run_pc # "raised" =>
        \A k \in 1..Len(RunLocals) :
            RunLocals[k] # None <=> RunPosition(run_pc) >= AssignedFrom[k]
    /\ run_pc = "raised" =>
        /\ run_result = None
        /\ \A k \in 1..(Len(RunLocals) - 1) :
            RunLocals[k] = None => RunLocals[k + 1] = None
        /\ run_failed_at = "Parsed" => election_params = None
        /\ run_failed_at = "Collected" =>
                (election_params # None /\ raw_data = None)
        /\ run_failed_at = "Analyzed" =>
                (raw_data # None /\ social_analysis = None)
        /\ run_failed_at = "Predicted" =>
                (social_analysis # None /\ predictions = None)

C12_StageStep ==
    /\ run_pc' # run_pc =>
        /\ run_pc \notin {"raised", "reported", "report_raised"}
        /\ run_pc' = "raised" \/ RunPosition(run_pc') = RunPosition(run_pc) + 1
    /\ \A k \in 1..Len(RunLocals) :
        RunLocals[k] # None => RunLocals'[k] = RunLocals[k]

\* C12: run_analysis passes through its stages in program order, each once
\* and none again; the result is assembled only when every earlier stage has
\* assigned its local; a stage that fails ends the run, and no later stage
\* assigns anything.
C12_LinearStages == []C12_StagesInOrder /\ [][C12_StageStep]_vars

\* C12 witness: a run that went through every stage and returned.
C12_Witness ==
    /\ run_pc = "returned"
    /\ \A k \in 1..Len(RunLocals) : RunLocals[k] # None

\* DataCollector.collect has sent its news request.
NewsRequested == dc_pc \in {"done", "raised"}

\* C14: the news request and the Twitter request each carry the window of the
\* last RecencyDays days and a bound on the number of results.
C14_RequestsWindowedAndCapped ==
    /\ NewsRequested =>
        /\ "from" \in DOMAIN dc_news_request.params
        /\ dc_news_request.params["from"] = dc_now - RecencyDays
    /\ dc_pc = "done" =>
        /\ dc_twitter_request.items <= ItemsLimit
        /\ Len(dc_result.social.twitter) <= ItemsLimit
        /\ Len(dc_result.news) <= ItemsLimit

\* The terms the parameters stand for: the present and non-empty ones of
\* election_type, country and region, then the candidates in quotes, then
\* the words of the list named by key.
ExpectedTerms(params, key) ==
    LET texts == <<"election_type", "country", "region">>
        present == SelectSeq(texts, LAMBDA k : k \in DOMAIN params /\ params[k] # "")
        candidates == DictGet(params, "candidates", <<>>)
    IN  [i \in 1..Len(present) |-> params[present[i]]]
        \o [i \in 1..Len(candidates) |-> Quoted[candidates[i]]]
        \o DictGet(params, key, <<>>)

\* C15: the expression each source is sent is the conjunction of the terms
\* the parameters stand for: joined with AND in the q of the news request,
\* and joined with blanks (before the retweet filter) in the q of the
\* Twitter request.
C15_SearchExpressionSent ==
    /\ NewsRequested =>
        /\ "q" \in DOMAIN dc_news_request.params
        /\ dc_news_request.params.q
                = Join(ExpectedTerms(dc_params, "keywords"), " AND ")
    /\ dc_pc = "done" =>
        dc_twitter_request.q
            = Join(ExpectedTerms(dc_params, "hashtags"), " ") \o <<" -filter:retweets">>

\* C16: when generate returns a path, the report and the raw data of the
\* run result are both on disk under one timestamp, the report at the path
\* returned; when generate raises, the reports directory (empty before the
\* call) holds no file.
C16_ReportAllOrNothing ==
    /\ run_pc = "reported" =>
        \E t \in Times :
            /\ report_path = ReportPath(t)
            /\ [path |-> ReportPath(t), content |-> report] \in disk
            /\ [path |-> RawDataPath(t), content |-> json_dumps(run_result)] \in disk
    /\ run_pc = "report_raised" => disk = {}

\* ------------------------------------------------------------------- spec
NewsIdle ==
    /\ news_data = <<>> /\ na_pc = "idle" /\ analyzed_articles = <<>>
    /\ na_fates = <<>> /\ na_submitted = None /\ na_result = None
    /\ na_raised_in = "nowhere"

SocialIdle ==
    /\ social_data = None /\ sm_pc = "idle" /\ sm_result = None
    /\ sm_raised_in = "nowhere"

RunIdle ==
    /\ run_pc = "idle" /\ election_params = None /\ api_articles = <<>>
    /\ api_fates = <<>> /\ api_statuses = <<>> /\ raw_data = None
    /\ news_analysis = None /\ social_analysis = None /\ predictions = None
    /\ run_result = None /\ run_failed_at = "nothing"
    /\ run_raised_in = "nowhere" /\ synthesis_failed = FALSE /\ report = None
    /\ disk = {} /\ report_path = None

CollectIdle ==
    /\ dc_params = None /\ dc_pc = "idle" /\ dc_now = 0
    /\ dc_news_request = None /\ dc_twitter_request = None /\ dc_result = None

InitNews ==
    /\ entry = "news"
    /\ news_data \in SeqsUpTo(NewsArticles, MaxItems)
    /\ na_pc = "idle" /\ analyzed_articles = <<>> /\ na_fates = <<>>
    /\ na_submitted = None /\ na_result = None /\ na_raised_in = "nowhere"
    /\ SocialIdle /\ RunIdle /\ CollectIdle

InitSocial ==
    /\ entry = "social"
    /\ social_data \in SocialData
    /\ sm_pc = "idle" /\ sm_result = None /\ sm_raised_in = "nowhere"
    /\ NewsIdle /\ RunIdle /\ CollectIdle

InitRun ==
    /\ entry = "run"
    /\ NewsIdle /\ SocialIdle /\ RunIdle /\ CollectIdle

InitCollect ==
    /\ entry = "collect"
    /\ dc_params \in CollectParameters
    /\ dc_pc = "idle" /\ dc_now = 0 /\ dc_news_request = None
    /\ dc_twitter_request = None /\ dc_result = None
    /\ NewsIdle /\ SocialIdle /\ RunIdle

NextNews == NewsAnalyze \/ NewsAnalyzeArticle \/ NewsAggregate

NextSocial == SocialAnalyze \/ SocialAnalyzeTwitter

NextRun ==
    \/ RunAnalysis \/ RunParse \/ RunCollect \/ RunAnalyzeNews
    \/ RunAnalyzeSocial \/ RunPredict \/ RunReturn \/ GenerateReport

NextCollect == DataCollect \/ DataCollectSources

Init == InitNews \/ InitSocial \/ InitRun \/ InitCollect

Next == NextNews \/ NextSocial \/ NextRun \/ NextCollect

\* every entry point
Spec == Init /\ [][Next]_vars

\* NewsAnalyzer.analyze alone
SpecNews == InitNews /\ [][NextNews]_vars

\* SocialMediaAnalyzer.analyze alone
SpecSocial == InitSocial /\ [][NextSocial]_vars

\* run_analysis and generate_report alone
SpecRun == InitRun /\ [][NextRun]_vars

\* DataCollector.collect alone
SpecCollect == InitCollect /\ [][NextCollect]_vars
====
